---- MODULE Spec2Model ----
(***************************************************************************)
(* Token-based authentication and session security of the health-care      *)
(* chatbot backend: brute-force guard (Redis keys or login_attempts rows), *)
(* access-token codec, refresh-token ledger and the token blacklist kept   *)
(* in the login_attempts table.                                            *)
(*                                                                         *)
(* Time is counted in ticks; TicksPerSec ticks make one second, so that    *)
(* the truncations to whole seconds done by int() and by the JWT codec are *)
(* visible.  The configured durations are settings read from the           *)
(* environment (config.py); the model runs them with small values.         *)
(***************************************************************************)
EXTENDS Integers, Sequences, FiniteSets, TLC

\* ---------------------------------------------------------------- bounds
TicksPerSec == 2
MaxTime == 4
MaxLedgerTime == 3
MaxRows == 5
MaxLogins == 1
MaxSessionLogins == 2
MaxTokens == 3
MaxAccess == 1
MaxExp == 4
MaxLogouts == 1
MaxOwnerTokens == 2
MaxOwnerTime == 2
MaxEvictTokens == 4
MaxEvictTime == 2
MaxRecords == 2
MaxCrowdTokens == 4
MaxCrowdTime == 1

\* ------------------------------------------------------------- settings
\* The guard's and the access token's durations are in seconds (Secs turns
\* them into ticks); the ledger's durations and the blacklist retention are
\* counted in ticks.  The values
\* are scaled down: config.py has 3 attempts, 120 s, 30 min, 7 days and 5
\* tokens, the code has 30 days (cleanup_user_tokens), 7 days
\* (cleanup_all_expired_tokens), 24 h (is_blacklisted) and 7 days
\* (revoke_user_tokens)
MAX_LOGIN_ATTEMPTS == 2
LOCKOUT_TIME == 2
ACCESS_TOKEN_EXPIRE == 2
REFRESH_TOKEN_EXPIRE == 1
REFRESH_TOKEN_MAX_COUNT == 2
USER_CLEANUP_AGE == 2
BLACKLIST_RETENTION == 3
ALL_CLEANUP_AGE == 1
REVOKE_LOGIN_AGE == 4

Secs(s) == s * TicksPerSec

\* users table: the registered identifiers; "nobody" is not registered
Users == {"u1", "u2"}
Workers == {"w1", "w2", "w3"}
\* the workers of the runs in which two requests interleave
Pair == {"w1", "w2"}
Emails == Users \cup {"nobody"}
\* the identifiers the requests of a run are made for
LoginEmails == {"u1", "nobody"}
LoginUsers == LoginEmails \cap Users

NoTime == 0 - 1

VARIABLES
    now,          \* wall clock, in ticks
    redisUp,      \* REDIS_AVAILABLE, fixed when auth_security is imported
    failKey,      \* Redis login_failures:<email>: [n, exp]
    lockKey,      \* Redis account_lock:<email>: [until, exp]
    attempts,     \* login_attempts table, rows in insertion order
    tokens,       \* refresh_tokens table, set of records
    nextId,       \* refresh_tokens autoincrement id
    issued,       \* access tokens handed out by login
    cre,          \* the calls in progress, one per worker
    last,         \* the last operation, its input and what it returned
    hist          \* history of the run (observer state, read by no operation)

vars == <<now, redisUp, failKey, lockKey, attempts, tokens, nextId, issued, cre, last, hist>>

\* ------------------------------------------------ brute-force guard: Redis
NoKey == [n |-> 0, until |-> 0, exp |-> 0]

\* redis GET: a key set with SETEX is gone once its ttl has run out
RedisGet(key, t) == IF key.exp > t THEN key ELSE NoKey

\* is_account_locked: (locked, remaining seconds); int() truncates
is_account_locked(lk, e, t) ==
    LET k == RedisGet(lk[e], t) IN
    IF k.exp > 0 /\ k.until > t
    THEN [locked |-> TRUE, remaining |-> (k.until - t) \div TicksPerSec]
    ELSE [locked |-> FALSE, remaining |-> 0]

\* record_failed_login: the count it returns and the keys it leaves
record_failed_login(fk, lk, e, t) ==
    LET failures == RedisGet(fk[e], t).n + 1 IN
    IF failures >= MAX_LOGIN_ATTEMPTS
    THEN [failures |-> failures,
          fk |-> [fk EXCEPT ![e] = NoKey],
          lk |-> [lk EXCEPT ![e] = [n |-> 0, until |-> t + Secs(LOCKOUT_TIME),
                                    exp |-> t + Secs(LOCKOUT_TIME)]]]
    ELSE [failures |-> failures,
          fk |-> [fk EXCEPT ![e] = [n |-> failures, until |-> 0,
                                    exp |-> t + Secs(LOCKOUT_TIME)]],
          lk |-> lk]

\* clear_login_attempts: both keys deleted
clear_login_attempts(fk, lk, e) ==
    [fk |-> [fk EXCEPT ![e] = NoKey], lk |-> [lk EXCEPT ![e] = NoKey]]

\* --------------------------------------- brute-force guard: login_attempts
NoTok == [sub |-> "", exp |-> 0, sig |-> FALSE]

Row(e, t, ok, ip, reason, tok) ==
    [email |-> e, time |-> t, success |-> ok, ip |-> ip, reason |-> reason, hash |-> tok]

RowIdx(A) == 1..Len(A)

\* the rows the lockout window counts: failed rows of the identifier newer than the cutoff
RecentFailureIdx(A, e, t) ==
    {i \in RowIdx(A) : A[i].email = e /\ ~A[i].success /\ A[i].time > t - Secs(LOCKOUT_TIME)}

FailureIdx(A, e) == {i \in RowIdx(A) : A[i].email = e /\ ~A[i].success}

MaxOf(S) == CHOOSE x \in S : \A y \in S : y <= x

\* is_account_locked_db
is_account_locked_db(A, e, t) ==
    IF Cardinality(RecentFailureIdx(A, e, t)) >= MAX_LOGIN_ATTEMPTS
    THEN LET last_failure == MaxOf({A[i].time : i \in FailureIdx(A, e)})
             lock_until == last_failure + Secs(LOCKOUT_TIME)
             remaining_seconds == (lock_until - t) \div TicksPerSec
         IN IF remaining_seconds > 0
            THEN [locked |-> TRUE, remaining |-> remaining_seconds]
            ELSE [locked |-> FALSE, remaining |-> 0]
    ELSE [locked |-> FALSE, remaining |-> 0]

\* record_failed_login_db: one more failed row
record_failed_login_db(A, e, t, reason) ==
    Append(A, Row(e, t, FALSE, "client", reason, NoTok))

\* clear_login_attempts_db: deletes the failed rows of the identifier inside the window
clear_login_attempts_db(A, e, t) ==
    SelectSeq(A, LAMBDA r : ~(r.email = e /\ ~r.success /\ r.time > t - Secs(LOCKOUT_TIME)))

\* record_successful_login_db
record_successful_login_db(A, e, t) ==
    Append(A, Row(e, t, TRUE, "client", "none", NoTok))


\* ---------------------------------------------------- access token codec
\* a JWT is determined by its claims and its signature: equal claims signed
\* with the same key give the same string
AccessToken(sub, exp) == [sub |-> sub, exp |-> exp, sig |-> TRUE]

\* the codec writes and reads exp in whole seconds
NowSec(t) == t \div TicksPerSec

\* create_access_token: exp = utcnow() + expires_delta, encoded in whole seconds
create_access_token(sub, t) == AccessToken(sub, NowSec(t + Secs(ACCESS_TOKEN_EXPIRE)))

\* TokenValidator.decode_token: the signature is verified first, then exp;
\* the codec raises ExpiredSignatureError when exp < now (whole seconds)
decode_token(tok, t) ==
    IF ~tok.sig THEN "signature_invalid"
    ELSE IF tok.exp < NowSec(t) THEN "expired"
    ELSE "claims"

\* TokenValidator.validate_token_payload
validate_token_payload(tok) ==
    IF tok.sub = "" THEN "missing_claims" ELSE "email"

\* TokenValidator.validate_token_complete: decode, payload, user lookup
validate_token_complete(tok, t) ==
    IF decode_token(tok, t) # "claims" THEN decode_token(tok, t)
    ELSE IF validate_token_payload(tok) # "email" THEN validate_token_payload(tok)
    ELSE IF tok.sub \notin Users THEN "user_not_found"
    ELSE "user"

\* ------------------------------------------------------- token blacklist
\* _get_token_hash: sha256 of the token string, one digest per string
token_hash(tok) == <<"sha256", tok>>

\* add_to_blacklist: the row it adds to login_attempts
add_to_blacklist(A, tok, e, t) ==
    Append(A, Row(e, t, FALSE, "blacklist_system", "blacklisted", token_hash(tok)))

\* the rows is_blacklisted's query matches
BlacklistIdx(A, tok) ==
    {i \in RowIdx(A) : A[i].reason = "blacklisted" /\ A[i].hash = token_hash(tok)
                       /\ ~A[i].success /\ A[i].ip = "blacklist_system"}

\* is_blacklisted: the answers it can give; first() has no ORDER BY, so any
\* matching row may be the one it looks at
is_blacklisted(A, tok, t) ==
    IF BlacklistIdx(A, tok) = {} THEN {FALSE}
    ELSE {A[i].time > t - BLACKLIST_RETENTION : i \in BlacklistIdx(A, tok)}

\* revoke_user_tokens: one row per successful login of the user in the last
\* 7 days; the rows carry no token hash.  The count it returns and the table
revoke_user_tokens(A, e, t) ==
    LET recent_logins == {i \in RowIdx(A) : A[i].email = e /\ A[i].success
                                            /\ A[i].time > t - REVOKE_LOGIN_AGE}
        entry == Row(e, t, FALSE, "blacklist_system", "blacklisted", <<"revoked_all_tokens">>)
    IN [revoked_count |-> Cardinality(recent_logins),
        A |-> A \o [i \in 1..Cardinality(recent_logins) |-> entry]]

\* --------------------------------------------------- refresh token ledger
\* created_at is utcnow() at microsecond resolution and inserts are a round
\* trip apart, so created_at orders the records as the autoincrement id does
Older(r1, r2) == r1.created < r2.created \/ (r1.created = r2.created /\ r1.id <= r2.id)

\* cleanup_user_tokens
cleanup_user_tokens(T, u, t) ==
    {r \in T : ~(r.user = u /\ r.expires < t - USER_CLEANUP_AGE)}

\* the count of create_refresh_token
active_tokens(T, u, t) == {r \in T : r.user = u /\ ~r.revoked /\ r.expires > t}

\* the query for the token to evict: not revoked, lowest created_at
oldest_token(T, u) ==
    LET C == {r \in T : r.user = u /\ ~r.revoked} IN
    IF C = {} THEN {} ELSE {CHOOSE r \in C : \A q \in C : Older(r, q)}

SetRevoked(T, R) == {IF r \in R THEN [r EXCEPT !.revoked = TRUE] ELSE r : r \in T}

\* a new record.  last_used_at is NULL in a new record, is set to the current
\* time by validate_refresh_token and is read by no code: the record keeps
\* whether the column holds a time
NewToken(id, u, t) ==
    [id |-> id, user |-> u, expires |-> t + REFRESH_TOKEN_EXPIRE, revoked |-> FALSE,
     created |-> t, lastUsedSet |-> FALSE]

\* create_refresh_token with the cap test weakened from >= to >
create_refresh_token_gt(T, u, t, id) ==
    LET T1 == cleanup_user_tokens(T, u, t)
        T2 == IF Cardinality(active_tokens(T1, u, t)) > REFRESH_TOKEN_MAX_COUNT
              THEN SetRevoked(T1, oldest_token(T1, u))
              ELSE T1
    IN T2 \cup {NewToken(id, u, t)}

\* create_refresh_token, run without interruption
create_refresh_token(T, u, t, id) ==
    LET T1 == cleanup_user_tokens(T, u, t)
        T2 == IF Cardinality(active_tokens(T1, u, t)) >= REFRESH_TOKEN_MAX_COUNT
              THEN SetRevoked(T1, oldest_token(T1, u))
              ELSE T1
    IN T2 \cup {NewToken(id, u, t)}

\* validate_refresh_token with the is_revoked == False filter left out
validate_refresh_token_any(T, v, t) ==
    LET F == {r \in T : r.id = v} IN
    IF F = {} THEN [res |-> "none", T |-> T]
    ELSE LET r == CHOOSE x \in F : TRUE IN
         IF r.expires < t THEN [res |-> "none", T |-> SetRevoked(T, {r})]
         ELSE IF r.user \notin Users THEN [res |-> "none", T |-> T]
         ELSE [res |-> "ok", T |-> (T \ {r}) \cup {[r EXCEPT !.lastUsedSet = TRUE]}]

\* validate_refresh_token rotating the token: a successful call revokes it
validate_refresh_token_rotating(T, v, t) ==
    LET F == {r \in T : r.id = v /\ ~r.revoked} IN
    IF F = {} THEN [res |-> "none", T |-> T]
    ELSE LET r == CHOOSE x \in F : TRUE IN
         IF r.expires < t THEN [res |-> "none", T |-> SetRevoked(T, {r})]
         ELSE IF r.user \notin Users THEN [res |-> "none", T |-> T]
         ELSE [res |-> "ok",
               T |-> (T \ {r}) \cup {[r EXCEPT !.lastUsedSet = TRUE, !.revoked = TRUE]}]

\* validate_refresh_token leaving an expired record as it is
validate_refresh_token_lenient(T, v, t) ==
    LET F == {r \in T : r.id = v /\ ~r.revoked} IN
    IF F = {} THEN [res |-> "none", T |-> T]
    ELSE LET r == CHOOSE x \in F : TRUE IN
         IF r.expires < t THEN [res |-> "none", T |-> T]
         ELSE IF r.user \notin Users THEN [res |-> "none", T |-> T]
         ELSE [res |-> "ok", T |-> (T \ {r}) \cup {[r EXCEPT !.lastUsedSet = TRUE]}]

\* validate_refresh_token: what it returns and the table it leaves
validate_refresh_token(T, v, t) ==
    LET F == {r \in T : r.id = v /\ ~r.revoked} IN
    IF F = {} THEN [res |-> "none", T |-> T]
    ELSE LET r == CHOOSE x \in F : TRUE IN
         IF r.expires < t THEN [res |-> "none", T |-> SetRevoked(T, {r})]
         ELSE IF r.user \notin Users THEN [res |-> "none", T |-> T]
         ELSE [res |-> "ok", T |-> (T \ {r}) \cup {[r EXCEPT !.lastUsedSet = TRUE]}]

\* revoke_refresh_token with the is_revoked == False filter left out
revoke_refresh_token_any(T, v) ==
    LET F == {r \in T : r.id = v} IN
    IF F = {} THEN [res |-> FALSE, T |-> T]
    ELSE [res |-> TRUE, T |-> SetRevoked(T, F)]

\* revoke_refresh_token
revoke_refresh_token(T, v) ==
    LET F == {r \in T : r.id = v /\ ~r.revoked} IN
    IF F = {} THEN [res |-> FALSE, T |-> T]
    ELSE [res |-> TRUE, T |-> SetRevoked(T, F)]

\* revoke_all_user_tokens with the user_id filter left out
revoke_all_user_tokens_every(T, u) ==
    LET F == {r \in T : ~r.revoked} IN
    [res |-> Cardinality(F), T |-> SetRevoked(T, F)]

\* revoke_all_user_tokens
revoke_all_user_tokens(T, u) ==
    LET F == {r \in T : r.user = u /\ ~r.revoked} IN
    [res |-> Cardinality(F), T |-> SetRevoked(T, F)]

\* cleanup_all_expired_tokens
cleanup_all_expired_tokens(T, t) == {r \in T : ~(r.expires < t - ALL_CLEANUP_AGE)}


\* ------------------------------------------------------------- responses
NoShape == [status |-> 0, message |-> "", fields |-> {}]

Result(op, e, pw, tok, rt, res, n, shape, g) ==
    [op |-> op, email |-> e, pw |-> pw, tok |-> tok, rt |-> rt, res |-> res, n |-> n,
     status |-> shape.status, message |-> shape.message, fields |-> shape.fields,
     g |-> g]

\* authenticate_user, locked: HTTP 423
LockedShape ==
    [status |-> 423, message |-> "Account locked due to too many failed login attempts",
     fields |-> {"message", "retry_after_seconds"}]

\* authenticate_user returns False for an unknown user; login_for_access_token raises 401
NoUserShape ==
    [status |-> 401, message |-> "Authentication failed", fields |-> {"message"}]

\* authenticate_user, wrong password: HTTP 401
WrongPasswordShape ==
    [status |-> 401, message |-> "Incorrect email or password",
     fields |-> {"message", "remaining_attempts", "account_locked"}]

\* login_for_access_token, success
LoginOkShape ==
    [status |-> 200, message |-> "",
     fields |-> {"success", "token", "refresh_token", "token_type", "expires_in",
                 "refresh_expires_in", "user"}]

\* ------------------------------------------------------------------ state
\* the lock check authenticate_user runs: Redis when REDIS_AVAILABLE, else the table
LockCheck(e) ==
    IF redisUp THEN is_account_locked(lockKey, e, now)
    ELSE is_account_locked_db(attempts, e, now)

\* the failures the backend in use counts for the identifier
FailureCount(e) ==
    IF redisUp THEN RedisGet(failKey[e], now).n
    ELSE Cardinality(RecentFailureIdx(attempts, e, now))

TypeOK ==
    /\ now \in 0..(IF MaxTime > MaxLedgerTime THEN MaxTime ELSE MaxLedgerTime)
    /\ redisUp \in BOOLEAN
    /\ Len(attempts) <= MaxRows
    /\ nextId \in 1..(MaxOf({MaxTokens, MaxEvictTokens, MaxCrowdTokens}) + 1)
    /\ Cardinality(issued) <= MaxAccess
    /\ \A r \in tokens : r.id < nextId

\* a worker that is not inside create_refresh_token
Idle == [at |-> "idle", user |-> "", cnt |-> 0, pick |-> {}]

InitHist ==
    [streak |-> [e \in Emails |-> <<>>],
     lockAt |-> [e \in Emails |-> NoTime],
     codeLockAt |-> [e \in Emails |-> NoTime],
     blAdded |-> {},
     everRevoked |-> {},
     errNoUser |-> NoShape,
     errWrongPw |-> NoShape,
     onlyCreates |-> TRUE,
     recorded |-> [e \in Emails |-> [n |-> 0, first |-> NoTime]],
     sinceLock |-> [e \in Emails |-> NoTime]]

Init ==
    /\ now = 0
    /\ redisUp \in BOOLEAN
    /\ failKey = [e \in Emails |-> NoKey]
    /\ lockKey = [e \in Emails |-> NoKey]
    /\ attempts = <<>>
    /\ tokens = {}
    /\ nextId = 1
    /\ issued = {}
    /\ cre = [w \in Workers |-> Idle]
    /\ last = Result("init", "", FALSE, NoTok, 0, "", 0, NoShape, {})
    /\ hist = InitHist

\* the token values that have been revoked at some time, after a step to table T
EverRevoked(T) == hist.everRevoked \cup {r.id : r \in {q \in T : q.revoked}}

\* time passes
Tick(limit) ==
    /\ now < limit
    /\ now' = now + 1
    /\ UNCHANGED <<redisUp, failKey, lockKey, attempts, tokens, nextId, issued, cre, last, hist>>


\* --------------------------------------------------------------- login
\* what the run has seen of the identifier when a login for it arrives
LoginFlags(e) ==
    (IF hist.lockAt[e] # NoTime /\ now < hist.lockAt[e] + Secs(LOCKOUT_TIME)
     THEN {"in_lock"} ELSE {})
    \cup
    (IF hist.codeLockAt[e] # NoTime /\ now >= hist.codeLockAt[e] + Secs(LOCKOUT_TIME)
     THEN {"lock_over"} ELSE {})

\* the run's record of a failed login that was counted
HistFailure(e, lockedAfter) ==
    LET w == Append(SelectSeq(hist.streak[e], LAMBDA x : x > now - Secs(LOCKOUT_TIME)), now)
        full == Len(w) >= MAX_LOGIN_ATTEMPTS
    IN [hist EXCEPT !.streak[e] = IF full THEN <<>> ELSE w,
                    !.lockAt[e] = IF full THEN now ELSE @,
                    !.codeLockAt[e] = IF lockedAfter THEN now ELSE NoTime,
                    !.sinceLock[e] = IF lockedAfter THEN 0
                                     ELSE IF @ = NoTime THEN @ ELSE @ + 1]

HistSuccess(e) ==
    [hist EXCEPT !.streak[e] = <<>>, !.lockAt[e] = NoTime, !.codeLockAt[e] = NoTime,
                 !.sinceLock[e] = NoTime]

\* authenticate_user recording the refused login as one more failure
LoginLocked_recording(e, pwOk) ==
    /\ LockCheck(e).locked
    /\ IF redisUp
       THEN /\ failKey' = record_failed_login(failKey, lockKey, e, now).fk
            /\ lockKey' = record_failed_login(failKey, lockKey, e, now).lk
            /\ UNCHANGED attempts
       ELSE /\ Len(attempts) < MaxRows
            /\ attempts' = record_failed_login_db(attempts, e, now, "account_locked")
            /\ UNCHANGED <<failKey, lockKey>>
    /\ last' = Result("login", e, pwOk, NoTok, 0, "locked", LockCheck(e).remaining,
                      LockedShape, LoginFlags(e))
    /\ UNCHANGED <<cre, now, redisUp, tokens, nextId, issued, hist>>

\* authenticate_user raising 423: nothing is written
LoginLocked(e, pwOk) ==
    /\ LockCheck(e).locked
    /\ last' = Result("login", e, pwOk, NoTok, 0, "locked", LockCheck(e).remaining,
                      LockedShape, LoginFlags(e))
    /\ UNCHANGED <<cre, now, redisUp, failKey, lockKey, attempts, tokens, nextId, issued, hist>>

\* authenticate_user for an identifier with no user row: the failure is recorded
LoginNoUser(e, pwOk) ==
    /\ ~LockCheck(e).locked
    /\ e \notin Users
    /\ IF redisUp
       THEN LET rec == record_failed_login(failKey, lockKey, e, now) IN
            /\ failKey' = rec.fk
            /\ lockKey' = rec.lk
            /\ UNCHANGED attempts
       ELSE /\ Len(attempts) < MaxRows
            /\ attempts' = record_failed_login_db(attempts, e, now, "user_not_found")
            /\ UNCHANGED <<failKey, lockKey>>
    /\ last' = Result("login", e, pwOk, NoTok, 0, "no_user", 0, NoUserShape, LoginFlags(e))
    /\ UNCHANGED <<cre, now, redisUp, tokens, nextId, issued>>
    /\ hist' = [HistFailure(e, LockCheck(e)'.locked) EXCEPT !.errNoUser = NoUserShape]

\* authenticate_user for a user whose password does not verify
LoginWrongPassword(e) ==
    /\ ~LockCheck(e).locked
    /\ e \in Users
    /\ IF redisUp
       THEN LET rec == record_failed_login(failKey, lockKey, e, now)
                remaining_attempts == MAX_LOGIN_ATTEMPTS - (rec.failures - 1)
            IN /\ failKey' = rec.fk
               /\ lockKey' = rec.lk
               /\ UNCHANGED attempts
               /\ last' = Result("login", e, FALSE, NoTok, 0, "wrong_password",
                                 remaining_attempts, WrongPasswordShape, LoginFlags(e))
       ELSE LET A == record_failed_login_db(attempts, e, now, "invalid_password")
                recent_failures == Cardinality(RecentFailureIdx(A, e, now))
                remaining_attempts ==
                    IF is_account_locked_db(A, e, now).locked THEN 0
                    ELSE IF MAX_LOGIN_ATTEMPTS - recent_failures > 0
                         THEN MAX_LOGIN_ATTEMPTS - recent_failures ELSE 0
            IN /\ Len(attempts) < MaxRows
               /\ attempts' = A
               /\ UNCHANGED <<failKey, lockKey>>
               /\ last' = Result("login", e, FALSE, NoTok, 0, "wrong_password",
                                 remaining_attempts, WrongPasswordShape, LoginFlags(e))
    /\ UNCHANGED <<cre, now, redisUp, tokens, nextId, issued>>
    /\ hist' = [HistFailure(e, LockCheck(e)'.locked) EXCEPT !.errWrongPw = WrongPasswordShape]

\* login_for_access_token for a user whose password verifies: the guard state
\* is cleared, an access token and a refresh token are issued
LoginOk(e, cap) ==
    /\ ~LockCheck(e).locked
    /\ e \in Users
    /\ nextId <= cap
    /\ create_access_token(e, now) \in issued \/ Cardinality(issued) < MaxAccess
    /\ IF redisUp
       THEN /\ failKey' = clear_login_attempts(failKey, lockKey, e).fk
            /\ lockKey' = clear_login_attempts(failKey, lockKey, e).lk
            /\ UNCHANGED attempts
       ELSE /\ Len(clear_login_attempts_db(attempts, e, now)) < MaxRows
            /\ attempts' = record_successful_login_db(clear_login_attempts_db(attempts, e, now), e, now)
            /\ UNCHANGED <<failKey, lockKey>>
    /\ issued' = issued \cup {create_access_token(e, now)}
    /\ tokens' = create_refresh_token(tokens, e, now, nextId)
    /\ nextId' = nextId + 1
    /\ last' = Result("login", e, TRUE, create_access_token(e, now), nextId, "ok", 0,
                      LoginOkShape, LoginFlags(e))
    /\ hist' = [HistSuccess(e) EXCEPT !.everRevoked = EverRevoked(tokens')]
    /\ UNCHANGED <<cre, now, redisUp>>

Login(e, pwOk, cap) ==
    \/ LoginLocked(e, pwOk)
    \/ LoginNoUser(e, pwOk)
    \/ (~pwOk /\ LoginWrongPassword(e))
    \/ (pwOk /\ LoginOk(e, cap))

\* ------------------------------------------- login while a backend fails
\* is_account_locked when the Redis call raises: the exception is logged and
\* the function falls through to its last line
is_account_locked_failed == [locked |-> FALSE, remaining |-> 0]

\* record_failed_login when a Redis call raises: logged, dummy count returned
record_failed_login_failed == 1

\* what the run knows of a login whose guard calls fail: with REDIS_AVAILABLE
\* the Redis calls raise; without it the inserts into login_attempts raise
FaultFlags(e) ==
    (IF redisUp THEN {"redis_failed"} ELSE {"db_insert_failed"})
    \cup (IF redisUp /\ is_account_locked(lockKey, e, now).locked
          THEN {"locked_in_redis"} ELSE {})

\* login_for_access_token while the guard's backend fails.  With
\* REDIS_AVAILABLE every Redis call of the request raises and
\* authenticate_user calls no _db function; without it the lock check and the
\* delete run, and the inserts of record_failed_login_db and
\* record_successful_login_db raise and are rolled back
LoginFault(e, pwOk, cap) ==
    /\ redisUp \/ ~is_account_locked_db(attempts, e, now).locked
    /\ IF e \notin Users
       THEN /\ last' = Result("login", e, pwOk, NoTok, 0, "no_user", 0, NoUserShape,
                              FaultFlags(e))
            /\ UNCHANGED <<attempts, tokens, nextId, issued, hist>>
       ELSE IF ~pwOk
       THEN LET recent_failures == Cardinality(RecentFailureIdx(attempts, e, now))
                remaining_attempts ==
                    IF redisUp
                    THEN MAX_LOGIN_ATTEMPTS - (record_failed_login_failed - 1)
                    ELSE IF MAX_LOGIN_ATTEMPTS - recent_failures > 0
                         THEN MAX_LOGIN_ATTEMPTS - recent_failures ELSE 0
            IN /\ last' = Result("login", e, FALSE, NoTok, 0, "wrong_password",
                                 remaining_attempts, WrongPasswordShape, FaultFlags(e))
               /\ UNCHANGED <<attempts, tokens, nextId, issued, hist>>
       ELSE /\ nextId <= cap
            /\ create_access_token(e, now) \in issued \/ Cardinality(issued) < MaxAccess
            /\ attempts' = IF redisUp THEN attempts
                           ELSE clear_login_attempts_db(attempts, e, now)
            /\ issued' = issued \cup {create_access_token(e, now)}
            /\ tokens' = create_refresh_token(tokens, e, now, nextId)
            /\ nextId' = nextId + 1
            /\ last' = Result("login", e, TRUE, create_access_token(e, now), nextId, "ok", 0,
                              LoginOkShape, FaultFlags(e))
            /\ hist' = [hist EXCEPT !.everRevoked = EverRevoked(tokens')]
    /\ UNCHANGED <<cre, now, redisUp, failKey, lockKey>>

\* --------------------------------------------------------------- logout
\* get_current_user: the token is checked by the external auth service and the
\* user row is fetched; the blacklist is not read.  The service may refuse any
\* token; it accepts only a genuine one whose exp has not passed
get_current_user(tok) ==
    IF tok \in issued /\ tok.sub \in Users /\ decode_token(tok, now) = "claims"
    THEN {"user", "invalid_credentials"}
    ELSE {"invalid_credentials"}

\* logout: the access token is blacklisted, then all refresh tokens of the
\* user are revoked
Logout(tok) ==
    /\ "user" \in get_current_user(tok)
    /\ Len(attempts) < MaxRows
    /\ attempts' = add_to_blacklist(attempts, tok, tok.sub, now)
    /\ tokens' = revoke_all_user_tokens(tokens, tok.sub).T
    /\ last' = Result("logout", tok.sub, FALSE, tok, 0,
                      IF revoke_all_user_tokens(tokens, tok.sub).res > 0
                      THEN "Logout successful" ELSE "Logout completed with some issues",
                      revoke_all_user_tokens(tokens, tok.sub).res,
                      [status |-> 200, message |-> "", fields |-> {"success", "message"}], {})
    /\ hist' = [hist EXCEPT !.blAdded = {b \in @ : b.tok # tok} \cup {[tok |-> tok, at |-> now]},
                            !.everRevoked = EverRevoked(tokens'),
                            !.onlyCreates = FALSE]
    /\ UNCHANGED <<cre, now, redisUp, failKey, lockKey, nextId, issued>>

\* the revoke-tokens endpoint called by an admin for an existing user
RevokeUserTokens(e) ==
    /\ e \in Users
    /\ Len(attempts) + revoke_user_tokens(attempts, e, now).revoked_count <= MaxRows
    /\ attempts' = revoke_user_tokens(attempts, e, now).A
    /\ last' = Result("revoke_user", e, FALSE, NoTok, 0, "revoked",
                      revoke_user_tokens(attempts, e, now).revoked_count,
                      [status |-> 200, message |-> "",
                       fields |-> {"success", "message", "revoked_count", "target_user",
                                   "revoked_by", "timestamp"}],
                      {})
    /\ UNCHANGED <<cre, now, redisUp, failKey, lockKey, tokens, nextId, issued, hist>>

\* ------------------------------------------------- token verification
\* the tokens a caller can present: the issued ones and forgeries of them
Presented == issued \cup {[tok EXCEPT !.sig = FALSE] : tok \in issued}

\* what the run knows of a token when it is presented: it was logged out, and
\* its exp still lies ahead
VerifyFlags(tok) ==
    (IF \E b \in hist.blAdded : b.tok = tok THEN {"logged_out"} ELSE {})
    \cup (IF Secs(tok.exp) > now THEN {"unexpired"} ELSE {})

\* the verify-token endpoint, as TokenValidator.validate_token_complete runs it
ValidateTokenComplete(tok) ==
    /\ last' = Result("verify", tok.sub, FALSE, tok, 0, validate_token_complete(tok, now), 0,
                      NoShape, VerifyFlags(tok))
    /\ UNCHANGED <<cre, now, redisUp, failKey, lockKey, attempts, tokens, nextId, issued, hist>>

\* the verify-token endpoint, as the get_current_user dependency runs it
GetCurrentUser(tok) ==
    /\ \E res \in get_current_user(tok) :
          last' = Result("current_user", tok.sub, FALSE, tok, 0, res, 0, NoShape,
                         VerifyFlags(tok))
    /\ UNCHANGED <<cre, now, redisUp, failKey, lockKey, attempts, tokens, nextId, issued, hist>>

\* a caller asks the blacklist about a token
IsBlacklisted(tok) ==
    /\ \E res \in is_blacklisted(attempts, tok, now) :
          last' = Result("is_blacklisted", tok.sub, FALSE, tok, 0,
                         IF res THEN "true" ELSE "false", 0, NoShape,
                         IF \E b \in hist.blAdded : b.tok = tok /\ now < b.at + BLACKLIST_RETENTION
                         THEN {"added"} ELSE {})
    /\ UNCHANGED <<cre, now, redisUp, failKey, lockKey, attempts, tokens, nextId, issued, hist>>

\* a caller has a token decoded
DecodeToken(tok) ==
    /\ last' = Result("decode", tok.sub, FALSE, tok, 0, decode_token(tok, now), 0, NoShape,
                      IF Secs(tok.exp) <= now THEN {"exp_reached"} ELSE {})
    /\ UNCHANGED <<cre, now, redisUp, failKey, lockKey, attempts, tokens, nextId, issued, hist>>

\* ------------------------------------------------------------- refresh
\* A string is kept as the sequence of its '.'-separated segments.
\* generate_refresh_token: "refresh_" and 64 letters and digits, no '.'
generate_refresh_token(id) == << <<"refresh_", id>> >>

\* the string jwt.encode makes of an access token: header.payload.signature
EncodedJwt(tok) == << <<"header">>, <<"payload", tok.sub, tok.exp>>, <<"signature", tok.sig>> >>

\* RefreshTokenRequest.validate_token_format: seg+ '.' seg+ '.' seg*, where
\* every character of both kinds of string is in [A-Za-z0-9-_]
validate_token_format(s) == Len(s) = 3 /\ s[1] # <<>> /\ s[2] # <<>>

\* the id of the record whose token column holds the string, 0 when none does
TokenId(s) ==
    IF \E i \in 1..MaxTokens : generate_refresh_token(i) = s
    THEN CHOOSE i \in 1..MaxTokens : generate_refresh_token(i) = s
    ELSE 0

\* the request body is refused by the model validation: HTTP 422
ValidationErrorShape == [status |-> 422, message |-> "Invalid token format", fields |-> {"detail"}]

RefreshInvalidShape ==
    [status |-> 401, message |-> "Invalid or expired refresh token",
     fields |-> {"message", "error_type"}]

RefreshOkShape ==
    [status |-> 200, message |-> "",
     fields |-> {"success", "token", "token_type", "expires_in", "refresh_token",
                 "refresh_expires_in"}]

\* what the run knows of the string presented to refresh
RefreshFlags(s) ==
    LET R == {r \in tokens : r.id = TokenId(s)} IN
    (IF \E r \in R : TRUE THEN {"from_login"} ELSE {})
    \cup (IF \E r \in R : r.expires > now THEN {"unexpired"} ELSE {})
    \cup (IF \E r \in R : ~r.revoked THEN {"unrevoked"} ELSE {})

\* refresh_access_token
RefreshAccessToken(s) ==
    /\ IF ~validate_token_format(s)
       THEN /\ last' = Result("refresh", "", FALSE, NoTok, TokenId(s), "validation_error", 0,
                              ValidationErrorShape, RefreshFlags(s))
            /\ UNCHANGED <<tokens, issued>>
       ELSE LET v == validate_refresh_token(tokens, TokenId(s), now)
                u == (CHOOSE r \in tokens : r.id = TokenId(s)).user
            IN /\ tokens' = v.T
               /\ IF v.res = "none"
                  THEN /\ last' = Result("refresh", "", FALSE, NoTok, TokenId(s), "invalid", 0,
                                         RefreshInvalidShape, RefreshFlags(s))
                       /\ UNCHANGED issued
                  ELSE /\ last' = Result("refresh", u, FALSE, create_access_token(u, now),
                                         TokenId(s), "ok", 0, RefreshOkShape, RefreshFlags(s))
                       /\ issued' = issued \cup {create_access_token(u, now)}
    /\ hist' = [hist EXCEPT !.everRevoked = EverRevoked(tokens'),
                            !.onlyCreates = IF tokens' = tokens THEN @ ELSE FALSE]
    /\ UNCHANGED <<cre, now, redisUp, failKey, lockKey, attempts, nextId>>

\* ------------------------------------------------- ledger operations
CreateRefreshTokenUpTo(u, cap) ==
    /\ nextId <= cap
    /\ tokens' = create_refresh_token(tokens, u, now, nextId)
    /\ nextId' = nextId + 1
    /\ last' = Result("create_rt", u, FALSE, NoTok, nextId, "ok", 0, NoShape, {})
    /\ hist' = [hist EXCEPT !.everRevoked = EverRevoked(tokens')]
    /\ UNCHANGED <<cre, now, redisUp, failKey, lockKey, attempts, issued>>

CreateRefreshToken(u) == CreateRefreshTokenUpTo(u, MaxTokens)

ValidateRefreshToken(v) ==
    /\ tokens' = validate_refresh_token(tokens, v, now).T
    /\ last' = Result("validate_rt", "", FALSE, NoTok, v, validate_refresh_token(tokens, v, now).res,
                      0, NoShape,
                      (IF v \in hist.everRevoked THEN {"was_revoked"} ELSE {})
                      \cup (IF \E r \in tokens : r.id = v /\ r.lastUsedSet
                            THEN {"used_before"} ELSE {}))
    /\ hist' = [hist EXCEPT !.everRevoked = EverRevoked(tokens'),
                            !.onlyCreates = IF tokens' = tokens THEN @ ELSE FALSE]
    /\ UNCHANGED <<cre, now, redisUp, failKey, lockKey, attempts, nextId, issued>>

RevokeRefreshToken(v) ==
    /\ tokens' = revoke_refresh_token(tokens, v).T
    /\ last' = Result("revoke_rt", "", FALSE, NoTok, v,
                      IF revoke_refresh_token(tokens, v).res THEN "true" ELSE "false",
                      0, NoShape, {})
    /\ hist' = [hist EXCEPT !.everRevoked = EverRevoked(tokens'),
                            !.onlyCreates = IF tokens' = tokens THEN @ ELSE FALSE]
    /\ UNCHANGED <<cre, now, redisUp, failKey, lockKey, attempts, nextId, issued>>

RevokeAllUserTokens(u) ==
    /\ tokens' = revoke_all_user_tokens(tokens, u).T
    /\ last' = Result("revoke_all", u, FALSE, NoTok, 0, "count",
                      revoke_all_user_tokens(tokens, u).res, NoShape, {})
    /\ hist' = [hist EXCEPT !.everRevoked = EverRevoked(tokens'),
                            !.onlyCreates = IF tokens' = tokens THEN @ ELSE FALSE]
    /\ UNCHANGED <<cre, now, redisUp, failKey, lockKey, attempts, nextId, issued>>

CleanupAllExpiredTokens ==
    /\ tokens' = cleanup_all_expired_tokens(tokens, now)
    /\ last' = Result("cleanup_all", "", FALSE, NoTok, 0, "count",
                      Cardinality(tokens) - Cardinality(cleanup_all_expired_tokens(tokens, now)),
                      NoShape, {})
    /\ hist' = [hist EXCEPT !.onlyCreates = IF tokens' = tokens THEN @ ELSE FALSE]
    /\ UNCHANGED <<cre, now, redisUp, failKey, lockKey, attempts, nextId, issued>>

\* ------------------------------------------------------- specifications
\* the brute-force guard under logins and logouts
Next ==
    \/ Tick(MaxTime)
    \/ \E e \in LoginEmails, pwOk \in BOOLEAN : Login(e, pwOk, MaxLogins)
    \/ \E tok \in issued : Logout(tok)

Spec == Init /\ [][Next]_vars

\* the brute-force guard alone: logins and the passing of time
NextGuard ==
    \/ Tick(MaxTime)
    \/ \E e \in LoginEmails, pwOk \in BOOLEAN : Login(e, pwOk, MaxLogins)

SpecGuard == Init /\ [][NextGuard]_vars

\* sessions: login, logout and the checks made on a presented access token
NextSession ==
    \/ Tick(MaxTime)
    \/ \E e \in LoginUsers : LoginLocked(e, TRUE)
    \/ \E e \in LoginUsers : LoginWrongPassword(e)
    \/ \E e \in LoginUsers : LoginOk(e, MaxSessionLogins)
    \/ \E tok \in issued : Logout(tok)
    \/ \E tok \in Presented : ValidateTokenComplete(tok)
    \/ \E tok \in Presented : GetCurrentUser(tok)
    \/ \E tok \in Presented : IsBlacklisted(tok)

SpecSession == Init /\ [][NextSession]_vars

\* the blacklist: logins, logouts, revocations by an admin and the question
\* whether a token is blacklisted
NextBlacklist ==
    \/ Tick(MaxTime)
    \/ \E e \in LoginUsers : LoginWrongPassword(e)
    \/ \E e \in LoginUsers : LoginOk(e, MaxLogins)
    \/ \E tok \in issued : Logout(tok)
    \/ \E e \in LoginUsers : RevokeUserTokens(e)
    \/ \E tok \in issued : IsBlacklisted(tok)

SpecBlacklist == Init /\ [][NextBlacklist]_vars

\* login and refresh: the strings a client can present are the refresh tokens
\* login returned and the access tokens
RefreshInputs ==
    {generate_refresh_token(r.id) : r \in tokens} \cup {EncodedJwt(tok) : tok \in issued}

NextRefresh ==
    \/ Tick(MaxTime)
    \/ \E e \in LoginUsers : LoginOk(e, MaxSessionLogins)
    \/ \E s \in RefreshInputs : RefreshAccessToken(s)

SpecRefresh == Init /\ [][NextRefresh]_vars

\* logins, some of them made while the guard's backend fails
NextOutage ==
    \/ Tick(MaxTime)
    \/ \E e \in LoginUsers : LoginLocked(e, TRUE)
    \/ \E e \in LoginUsers : LoginWrongPassword(e)
    \/ \E e \in LoginUsers : LoginOk(e, MaxLogins)
    \/ \E e \in LoginEmails, pwOk \in BOOLEAN : LoginFault(e, pwOk, MaxLogins)

SpecOutage == Init /\ [][NextOutage]_vars

\* the codec on any token at any time
TokenInputs == [sub : {"u1"}, exp : 0..MaxExp, sig : BOOLEAN]

NextCodec ==
    \/ Tick(MaxTime)
    \/ \E tok \in TokenInputs : DecodeToken(tok)

SpecCodec == Init /\ [][NextCodec]_vars

\* the refresh-token ledger, one call at a time
NextLedger ==
    \/ Tick(MaxLedgerTime)
    \/ \E u \in LoginUsers : CreateRefreshToken(u)
    \/ \E v \in 1..MaxTokens : ValidateRefreshToken(v)
    \/ \E v \in 1..MaxTokens : RevokeRefreshToken(v)
    \/ \E u \in LoginUsers : RevokeAllUserTokens(u)
    \/ CleanupAllExpiredTokens

\* the ledger reads nothing of the brute-force guard: one backend is enough
InitLedger == Init /\ redisUp

SpecLedger == InitLedger /\ [][NextLedger]_vars


\* the ledger of one owner over the time in which a token expires and is
\* not yet deleted by cleanup_user_tokens
NextEvict ==
    \/ Tick(MaxEvictTime)
    \/ \E u \in LoginUsers : CreateRefreshTokenUpTo(u, MaxEvictTokens)
    \/ \E v \in 1..MaxEvictTokens : RevokeRefreshToken(v)

SpecEvict == InitLedger /\ [][NextEvict]_vars

\* the ledger with the tokens of two owners, one of whom logs in and out
NextOwners ==
    \/ Tick(MaxOwnerTime)
    \/ \E u \in Users \ LoginUsers : nextId <= MaxOwnerTokens /\ CreateRefreshToken(u)
    \/ \E e \in LoginUsers : LoginOk(e, MaxOwnerTokens)
    \/ \E tok \in issued : Len(attempts) < MaxLogouts /\ Logout(tok)
    \/ \E v \in 1..MaxOwnerTokens : ValidateRefreshToken(v)
    \/ \E u \in Users : RevokeAllUserTokens(u)

SpecOwners == InitLedger /\ [][NextOwners]_vars


\* ------------------------------- create_refresh_token, statement by statement
\* each worker runs the function on its own session; the statements of
\* different workers interleave at the database

\* cleanup_user_tokens and its commit
CreateCleanupUpTo(w, u, cap) ==
    /\ cre[w].at = "idle"
    /\ nextId + Cardinality({x \in Workers : cre[x].at # "idle"}) <= cap
    /\ tokens' = cleanup_user_tokens(tokens, u, now)
    /\ cre' = [cre EXCEPT ![w] = [at |-> "count", user |-> u, cnt |-> 0, pick |-> {}]]
    /\ UNCHANGED <<now, redisUp, failKey, lockKey, attempts, nextId, issued, last, hist>>

CreateCleanup(w, u) == CreateCleanupUpTo(w, u, MaxTokens)

\* the count of active tokens and the comparison with the limit
CreateCount(w) ==
    /\ cre[w].at = "count"
    /\ LET c == Cardinality(active_tokens(tokens, cre[w].user, now)) IN
       cre' = [cre EXCEPT ![w].cnt = c,
                          ![w].at = IF c >= REFRESH_TOKEN_MAX_COUNT THEN "pick" ELSE "insert"]
    /\ UNCHANGED <<now, redisUp, failKey, lockKey, attempts, tokens, nextId, issued, last, hist>>

\* the query for the oldest token
CreatePick(w) ==
    /\ cre[w].at = "pick"
    /\ LET o == {r.id : r \in oldest_token(tokens, cre[w].user)} IN
       cre' = [cre EXCEPT ![w].pick = o, ![w].at = IF o = {} THEN "insert" ELSE "evict"]
    /\ UNCHANGED <<now, redisUp, failKey, lockKey, attempts, tokens, nextId, issued, last, hist>>

\* is_revoked = True on the picked row and its commit; the update of a row
\* that is gone raises, and the function ends in its except branch
CreateEvict(w) ==
    /\ cre[w].at = "evict"
    /\ IF \E r \in tokens : r.id \in cre[w].pick
       THEN /\ tokens' = SetRevoked(tokens, {r \in tokens : r.id \in cre[w].pick})
            /\ cre' = [cre EXCEPT ![w].at = "insert"]
            /\ last' = last
       ELSE /\ tokens' = tokens
            /\ cre' = [cre EXCEPT ![w] = Idle]
            /\ last' = Result("create_rt", cre[w].user, FALSE, NoTok, 0, "error", 0,
                              [status |-> 500, message |-> "Failed to create refresh token",
                               fields |-> {"detail"}], {})
    /\ hist' = [hist EXCEPT !.everRevoked = EverRevoked(tokens'), !.onlyCreates = FALSE]
    /\ UNCHANGED <<now, redisUp, failKey, lockKey, attempts, nextId, issued>>

\* the insert of the new row and its commit
CreateInsert(w) ==
    /\ cre[w].at = "insert"
    /\ tokens' = tokens \cup {NewToken(nextId, cre[w].user, now)}
    /\ nextId' = nextId + 1
    /\ cre' = [cre EXCEPT ![w] = Idle]
    /\ last' = Result("create_rt", cre[w].user, FALSE, NoTok, nextId, "ok", 0, NoShape, {})
    /\ UNCHANGED <<now, redisUp, failKey, lockKey, attempts, issued, hist>>

\* concurrent create_refresh_token calls
NextConc ==
    \/ Tick(MaxTime)
    \/ \E w \in Pair, u \in LoginUsers : CreateCleanup(w, u)
    \/ \E w \in Pair : CreateCount(w)
    \/ \E w \in Pair : CreatePick(w)
    \/ \E w \in Pair : CreateEvict(w)
    \/ \E w \in Pair : CreateInsert(w)

SpecConc == Init /\ [][NextConc]_vars

\* create_refresh_token calls of three requests at a time
NextCrowd ==
    \/ Tick(MaxCrowdTime)
    \/ \E w \in Workers, u \in LoginUsers : CreateCleanupUpTo(w, u, MaxCrowdTokens)
    \/ \E w \in Workers : CreateCount(w)
    \/ \E w \in Workers : CreatePick(w)
    \/ \E w \in Workers : CreateEvict(w)
    \/ \E w \in Workers : CreateInsert(w)

SpecCrowd == InitLedger /\ [][NextCrowd]_vars

\* a statement of create_refresh_token raises, or the request is abandoned,
\* before the insert is committed: the except branch rolls back what is not
\* committed and answers 500.  The delete of cleanup_user_tokens and the
\* is_revoked = True of the eviction were committed by earlier statements
CreateFail(w) ==
    /\ cre[w].at \in {"count", "pick", "evict", "insert"}
    /\ cre' = [cre EXCEPT ![w] = Idle]
    /\ last' = Result("create_rt", cre[w].user, FALSE, NoTok, 0, "error", 0,
                      [status |-> 500, message |-> "Failed to create refresh token",
                       fields |-> {"detail"}],
                      IF cre[w].at = "insert"
                         /\ \E r \in tokens : r.id \in cre[w].pick /\ r.revoked
                      THEN {"evicted"} ELSE {})
    /\ UNCHANGED <<now, redisUp, failKey, lockKey, attempts, tokens, nextId, issued, hist>>

\* concurrent create_refresh_token calls, any of which may fail
NextAbort ==
    \/ Tick(MaxTime)
    \/ \E w \in Pair, u \in LoginUsers : CreateCleanup(w, u)
    \/ \E w \in Pair : CreateCount(w)
    \/ \E w \in Pair : CreatePick(w)
    \/ \E w \in Pair : CreateEvict(w)
    \/ \E w \in Pair : CreateInsert(w)
    \/ \E w \in Pair : CreateFail(w)

SpecAbort == Init /\ [][NextAbort]_vars

\* ------------------------------- record_failed_login, statement by statement
\* each worker runs the function for one request; the Redis commands of
\* different workers interleave at the server

\* redis_client.get(key) and failures += 1
RecordFailedGet(w, e) ==
    /\ redisUp
    /\ cre[w].at = "idle"
    /\ hist.recorded[e].n + Cardinality({x \in Workers : cre[x].at = "set" /\ cre[x].user = e})
           < MaxRecords
    /\ cre' = [cre EXCEPT ![w] = [at |-> "set", user |-> e,
                                  cnt |-> RedisGet(failKey[e], now).n + 1, pick |-> {}]]
    /\ UNCHANGED <<now, redisUp, failKey, lockKey, attempts, tokens, nextId, issued, last, hist>>

\* the write of what was computed from the value read: the lock key and the
\* delete of the counter, or the counter
RecordFailedSet(w) ==
    /\ cre[w].at = "set"
    /\ LET e == cre[w].user
           failures == cre[w].cnt
       IN /\ IF failures >= MAX_LOGIN_ATTEMPTS
             THEN /\ lockKey' = [lockKey EXCEPT ![e] = [n |-> 0, until |-> now + Secs(LOCKOUT_TIME),
                                                        exp |-> now + Secs(LOCKOUT_TIME)]]
                  /\ failKey' = [failKey EXCEPT ![e] = NoKey]
             ELSE /\ failKey' = [failKey EXCEPT ![e] = [n |-> failures, until |-> 0,
                                                        exp |-> now + Secs(LOCKOUT_TIME)]]
                  /\ lockKey' = lockKey
          /\ last' = Result("record_failed", e, FALSE, NoTok, 0, "recorded", failures, NoShape, {})
          /\ hist' = [hist EXCEPT !.recorded[e] =
                         [n |-> @.n + 1, first |-> IF @.first = NoTime THEN now ELSE @.first]]
    /\ cre' = [cre EXCEPT ![w] = Idle]
    /\ UNCHANGED <<now, redisUp, attempts, tokens, nextId, issued>>

\* concurrent record_failed_login calls
NextRace ==
    \/ Tick(MaxTime)
    \/ \E w \in Pair, e \in LoginEmails : RecordFailedGet(w, e)
    \/ \E w \in Pair : RecordFailedSet(w)

SpecRace == Init /\ [][NextRace]_vars

\* ================================================================ claims

\* C1: for every owner, in every reachable state, also under interleaved
\* create_refresh_token calls, at most REFRESH_TOKEN_MAX_COUNT records are
\* not revoked and not expired
C1_ActiveAtMostN ==
    \A u \in Users : Cardinality(active_tokens(tokens, u, now)) <= REFRESH_TOKEN_MAX_COUNT

\* C2: a login made within LOCKOUT_TIME seconds of the MAX_LOGIN_ATTEMPTS-th
\* consecutive failure in the window is rejected with 423 and a remaining
\* time r, 0 < r <= LOCKOUT_TIME, whatever the password
C2_LockedForL ==
    (last.op = "login" /\ "in_lock" \in last.g)
        => (last.status = 423 /\ 0 < last.n /\ last.n <= LOCKOUT_TIME)

\* C3: a verify of an access token that was logged out and is not expired is
\* rejected as revoked
C3_VerifyRevoked ==
    (last.op \in {"verify", "current_user"} /\ last.tok.sig
     /\ {"logged_out", "unexpired"} \subseteq last.g)
        => last.res = "revoked"

\* C4: is_blacklisted on a token that add_to_blacklist accepted less than the
\* retention window ago answers True
C4_RevocationVisible ==
    (last.op = "is_blacklisted" /\ "added" \in last.g) => last.res = "true"

\* C5: decode_token returns no claims for a token whose exp is at or before
\* the current time, whatever its signature
C5_ExpiredRejected ==
    (last.op = "decode" /\ "exp_reached" \in last.g) => last.res # "claims"

\* C6: no step turns is_revoked of a record back to false, and a token value
\* that was revoked at some time is rejected by validate_refresh_token
C6_RevocationMonotonic ==
    /\ [][\A r \in tokens : r.revoked => \A q \in tokens' : q.id = r.id => q.revoked]_vars
    /\ []((last.op = "validate_rt" /\ "was_revoked" \in last.g) => last.res = "none")

C6_Witness ==
    /\ last.op = "validate_rt" /\ "was_revoked" \in last.g /\ last.res = "none"
    /\ \E r \in tokens : r.id = last.rt /\ r.revoked /\ r.expires > now

\* C7: the error of a login for an unknown identifier and the error of a
\* login with a wrong password have the same status, message and fields
C7_SameErrorShape ==
    (hist.errNoUser # NoShape /\ hist.errWrongPw # NoShape)
        => hist.errNoUser = hist.errWrongPw

\* C8: after REFRESH_TOKEN_MAX_COUNT + 1 creates for an owner that had no
\* token, none expiring in between and nothing else done, the first token is
\* revoked and the others, REFRESH_TOKEN_MAX_COUNT of them, are not
SequentialCreates ==
    /\ hist.onlyCreates
    /\ nextId = REFRESH_TOKEN_MAX_COUNT + 2
    /\ \A i \in 1..(REFRESH_TOKEN_MAX_COUNT + 1) : \E r \in tokens : r.id = i /\ r.user = "u1"
    /\ \A r, q \in tokens : q.id = REFRESH_TOKEN_MAX_COUNT + 1 => r.expires > q.created

C8_OldestEvicted ==
    SequentialCreates =>
        /\ \A r \in tokens : r.revoked <=> r.id = 1
        /\ Cardinality({r \in tokens : ~r.revoked}) = REFRESH_TOKEN_MAX_COUNT

C8_Witness ==
    /\ SequentialCreates
    /\ last.op = "create_rt" /\ last.rt = REFRESH_TOKEN_MAX_COUNT + 1
    /\ \E r \in tokens : r.id = 1 /\ r.revoked

\* C9: revoke_refresh_token on a value with a record that is not revoked
\* returns True and revokes it, and a second call right after returns False
\* and changes nothing; on any other value it returns False and changes nothing
C9_RevokeIdempotent ==
    [][\A v \in 1..MaxTokens : RevokeRefreshToken(v) =>
          IF \E r \in tokens : r.id = v /\ ~r.revoked
          THEN /\ last'.res = "true"
               /\ \A q \in tokens' : q.id = v => q.revoked
               /\ {q.id : q \in tokens'} = {r.id : r \in tokens}
               /\ revoke_refresh_token(tokens', v) = [res |-> FALSE, T |-> tokens']
          ELSE /\ last'.res = "false"
               /\ tokens' = tokens
               /\ UNCHANGED <<attempts, failKey, lockKey, nextId, issued>>]_vars

C9_Witness ==
    /\ last.op = "revoke_rt" /\ last.res = "false"
    /\ \E r \in tokens : r.id = last.rt /\ r.revoked /\ r.expires > now

\* C10: a login with the correct password made once LOCKOUT_TIME seconds
\* have passed since the lock, with no failure in between, succeeds, and no
\* failure count and no lock are left in the backend in use
C10_UnlockedAfterL ==
    (last.op = "login" /\ last.pw /\ last.email \in Users /\ "lock_over" \in last.g)
        => /\ last.status = 200
           /\ ~LockCheck(last.email).locked
           /\ FailureCount(last.email) = 0

\* C11: refresh with the refresh-token string a login returned, while its
\* record is not expired and not revoked, answers 200 with an access token of
\* the same subject whose exp is later than that of the login's access token
C11_RefreshAccepted ==
    (last.op = "refresh" /\ {"from_login", "unexpired", "unrevoked"} \subseteq last.g)
        => /\ last.status = 200
           /\ \A r \in tokens : r.id = last.rt =>
                  /\ last.tok.sub = r.user
                  /\ last.tok.exp > create_access_token(r.user, r.created).exp

\* C12: a login whose Redis calls fail carries out the same operation on the
\* login_attempts table: it is refused when the table says locked, a failed
\* login adds a failed row for the identifier, and a successful one leaves
\* no failed row of the identifier in the window
C12_FallbackToDb ==
    [][\A e \in LoginEmails, pwOk \in BOOLEAN :
          (redisUp /\ LoginFault(e, pwOk, MaxLogins)) =>
              IF is_account_locked_db(attempts, e, now).locked THEN last'.status = 423
              ELSE IF e \notin Users \/ ~pwOk
              THEN /\ Len(attempts') = Len(attempts) + 1
                   /\ attempts'[Len(attempts')].email = e
                   /\ ~attempts'[Len(attempts')].success
              ELSE RecentFailureIdx(attempts', e, now) = {}]_vars

\* C13: a login during which the guard's backend could not answer the lock
\* check or record the failure ends in an infrastructure error (5xx)
C13_NoSilentBypass ==
    (last.op = "login" /\ last.g \cap {"redis_failed", "db_insert_failed"} # {})
        => last.status \in {500, 503}

\* C14: a logout revokes every refresh token the user had, and each of them
\* fails validate_refresh_token from then on; revoke_all_user_tokens returns
\* the number of records it marked revoked, marks exactly the owner's
\* unrevoked records and leaves the records of every other owner as they were
C14_LogoutRevokesAll ==
    /\ [][\A tok \in issued : Logout(tok) =>
             \A r \in tokens : r.user = tok.sub =>
                 /\ [r EXCEPT !.revoked = TRUE] \in tokens'
                 /\ r.id \in hist'.everRevoked
                 /\ validate_refresh_token(tokens', r.id, now).res = "none"]_vars
    /\ [][\A u \in Users : RevokeAllUserTokens(u) =>
             /\ last'.n = Cardinality({r \in tokens : r.user = u /\ ~r.revoked})
             /\ \A r \in tokens : r.user = u => [r EXCEPT !.revoked = TRUE] \in tokens'
             /\ \A r \in tokens : r.user # u => r \in tokens'
             /\ Cardinality(tokens') = Cardinality(tokens)]_vars
    /\ []((last.op = "validate_rt" /\ "was_revoked" \in last.g) => last.res = "none")

C14_Witness ==
    /\ last.op = "logout" /\ last.n >= 1
    /\ \E r \in tokens : r.user = last.email /\ r.revoked
    /\ \E r \in tokens : r.user # last.email /\ ~r.revoked

\* C15: a successful validate_refresh_token changes nothing in the ledger
\* but the last_used_at of its record, and a token that validated before
\* validates again as long as it is not expired and was never revoked
C15_NoRotation ==
    /\ [][\A v \in 1..MaxTokens :
             (ValidateRefreshToken(v) /\ last'.res = "ok") =>
                 /\ \A r \in tokens : r.id # v => r \in tokens'
                 /\ \A r \in tokens : r.id = v => [r EXCEPT !.lastUsedSet = TRUE] \in tokens'
                 /\ Cardinality(tokens') = Cardinality(tokens)]_vars
    /\ []((/\ last.op = "validate_rt"
           /\ "used_before" \in last.g
           /\ "was_revoked" \notin last.g
           /\ \E r \in tokens : r.id = last.rt /\ r.expires > now)
          => last.res = "ok")

C15_Witness ==
    /\ last.op = "validate_rt" /\ last.res = "ok"
    /\ "used_before" \in last.g
    /\ \E r \in tokens : r.id = last.rt /\ ~r.revoked /\ r.lastUsedSet /\ r.created < now

\* C16: when create_refresh_token finds REFRESH_TOKEN_MAX_COUNT or more
\* active tokens of the owner, the one record it revokes is the oldest of the
\* owner's records that are not revoked and not expired
C16_EvictsOldestActive ==
    [][\A u \in LoginUsers :
         (/\ CreateRefreshTokenUpTo(u, MaxEvictTokens)
          /\ Cardinality(active_tokens(cleanup_user_tokens(tokens, u, now), u, now))
                 >= REFRESH_TOKEN_MAX_COUNT)
         => \E r \in active_tokens(tokens, u, now) :
                /\ \A q \in active_tokens(tokens, u, now) : Older(r, q)
                /\ [r EXCEPT !.revoked = TRUE] \in tokens'
                /\ \A q \in tokens : q # r => q \in tokens' \/ q \notin cleanup_user_tokens(tokens, u, now)]_vars

\* C17: a create_refresh_token call that ends in failure before its insert
\* is committed has revoked no record of the owner
C17_CreateAllOrNothing ==
    (last.op = "create_rt" /\ last.res = "error") => "evicted" \notin last.g

\* C18: once k record_failed_login calls for an identifier, run in any
\* interleaving from a clean state, have all returned, and while the keys
\* they wrote have not expired, Redis holds the count k if
\* k < MAX_LOGIN_ATTEMPTS and the lock otherwise
C18_NoLostIncrement ==
    \A e \in LoginEmails :
        (/\ \A w \in Workers : cre[w].at = "idle"
         /\ hist.recorded[e].n > 0
         /\ now < hist.recorded[e].first + Secs(LOCKOUT_TIME))
        => IF hist.recorded[e].n < MAX_LOGIN_ATTEMPTS
           THEN RedisGet(failKey[e], now).n = hist.recorded[e].n
           ELSE is_account_locked(lockKey, e, now).locked

\* C19: whatever the number of create_refresh_token calls in progress for
\* an owner and however they interleave, the owner has at most
\* REFRESH_TOKEN_MAX_COUNT + 1 records that are not revoked and not expired
C19_AtMostOneExtra ==
    \A u \in LoginUsers :
        Cardinality(active_tokens(tokens, u, now)) <= REFRESH_TOKEN_MAX_COUNT + 1

\* C20: in both backends, an identifier that the lock check reported locked
\* right after a failure at time t is reported locked at every time before
\* t + LOCKOUT_TIME seconds
C20_LockLastsL ==
    \A e \in LoginEmails :
        (hist.codeLockAt[e] # NoTime /\ now < hist.codeLockAt[e] + Secs(LOCKOUT_TIME))
            => LockCheck(e).locked

\* C21: in either backend, a failed login that locks an identifier that was
\* locked before is at least the MAX_LOGIN_ATTEMPTS-th failure recorded since
\* that earlier lock began
C21_RelockNeedsM ==
    [][\A e \in LoginEmails :
         (/\ LoginWrongPassword(e) \/ LoginNoUser(e, FALSE)
          /\ hist.sinceLock[e] # NoTime
          /\ LockCheck(e)'.locked)
         => hist.sinceLock[e] + 1 >= MAX_LOGIN_ATTEMPTS]_vars

\* C22: in the database backend the rows written by add_to_blacklist and by
\* revoke_user_tokens are not among the rows is_account_locked_db counts, and
\* an identifier it reports locked has MAX_LOGIN_ATTEMPTS failed credential
\* checks in the window
C22_OnlyFailuresCount ==
    ~redisUp =>
        \A e \in LoginEmails :
            /\ \A i \in RecentFailureIdx(attempts, e, now) : attempts[i].ip # "blacklist_system"
            /\ is_account_locked_db(attempts, e, now).locked =>
                   Cardinality({i \in RecentFailureIdx(attempts, e, now) :
                                   attempts[i].ip # "blacklist_system"}) >= MAX_LOGIN_ATTEMPTS

\* C23: is_blacklisted answers True exactly when some entry with the token's
\* hash is younger than the retention window, whatever older entries with
\* that hash the table also holds
C23_BlacklistedIffYoungEntry ==
    [][\A tok \in issued :
         IsBlacklisted(tok) =>
             (last'.res = "true" <=>
                 \E i \in BlacklistIdx(attempts, tok) :
                     attempts[i].time > now - BLACKLIST_RETENTION)]_vars

\* C24: once revoke_user_tokens has returned for a user, is_blacklisted
\* answers True for every access token issued to that user before, and the
\* count it returned is the number of those tokens that were not expired
C24_RevokeUserTokensRevokes ==
    [][\A e \in LoginUsers :
         RevokeUserTokens(e) =>
             /\ \A tok \in issued : tok.sub = e => is_blacklisted(attempts', tok, now) = {TRUE}
             /\ last'.n = Cardinality({tok \in issued :
                                          tok.sub = e /\ decode_token(tok, now) = "claims"})]_vars

\* C25: validate_refresh_token gives different results for a value with no
\* record, a value whose record is revoked and a value whose record is
\* expired
RejectionReason(v) ==
    IF ~\E r \in tokens : r.id = v THEN "not_found"
    ELSE IF \E r \in tokens : r.id = v /\ r.revoked THEN "revoked"
    ELSE IF \E r \in tokens : r.id = v /\ r.expires < now THEN "expired"
    ELSE "none"

C25_RejectionsDistinct ==
    \A v, w \in 1..MaxTokens :
        (/\ RejectionReason(v) # "none"
         /\ RejectionReason(w) # "none"
         /\ RejectionReason(v) # RejectionReason(w))
        => validate_refresh_token(tokens, v, now).res # validate_refresh_token(tokens, w, now).res

\* C26: a token whose blacklist entry is in the table is reported as
\* blacklisted at every instant up to the token's exp
C26_RetentionCoversLifetime ==
    \A tok \in issued :
        (BlacklistIdx(attempts, tok) # {} /\ now <= Secs(tok.exp))
            => is_blacklisted(attempts, tok, now) = {TRUE}

\* C27: validate_refresh_token on a value whose record is not revoked and has
\* expires_at in the past returns (None, None) and sets is_revoked on that
\* record, leaving every other record as it was
C27_ExpiredValidateRevokes ==
    [][\A v \in 1..MaxTokens :
         (/\ ValidateRefreshToken(v)
          /\ \E r \in tokens : r.id = v /\ ~r.revoked /\ r.expires < now)
         => /\ last'.res = "none"
            /\ \A r \in tokens : r.id = v => [r EXCEPT !.revoked = TRUE] \in tokens'
            /\ \A r \in tokens : r.id # v => r \in tokens'
            /\ Cardinality(tokens') = Cardinality(tokens)]_vars

C27_Witness ==
    /\ last.op = "validate_rt" /\ last.res = "none"
    /\ "was_revoked" \notin last.g
    /\ \E r \in tokens : r.id = last.rt /\ r.revoked /\ r.expires < now

C29_RemainingAttempts ==
    [][\A e \in LoginUsers :
         LoginWrongPassword(e) =>
             /\ last'.n = IF LockCheck(e)'.locked THEN 0
                          ELSE MAX_LOGIN_ATTEMPTS - FailureCount(e)'
             /\ (last'.n <= 0) <=> LockCheck(e)'.locked]_vars

\* C30: at every instant, a record that is not revoked is accepted by
\* validate_refresh_token exactly when the count of create_refresh_token
\* takes it as active
C30_ExpiryAgrees ==
    \A r \in tokens :
        ~r.revoked =>
            (validate_refresh_token(tokens, r.id, now).res = "ok"
                 <=> r \in active_tokens(tokens, r.user, now))

====
